---- MODULE Spec2Model ----
(***************************************************************************)
(* Model of tictactoe.py: tic-tac-toe for an arbitrary sized board.        *)
(*                                                                         *)
(* A Python one-character string is a TLA+ string; a slot ('ab') is the    *)
(* concatenation of two of them, the tuple <<"a", "b">>; a Python list is  *)
(* a sequence; a dict is a function.  None, where a slot is expected, is   *)
(* the empty tuple.  Assertions are enabled (the script is run by plain    *)
(* "python", without -O).                                                  *)
(***************************************************************************)
EXTENDS Integers, Sequences, FiniteSets, TLC

VARIABLES
    pc,               \* lifecycle of the Board object / position of main()
    board_size,       \* Board._board_size
    win_size,         \* Board._win_size
    slots,            \* Board._slots
    win_sets,         \* Board._win_sets
    slot_to_winsets,  \* Board._slot_to_winsets
    placements,       \* Board._placements
    ret,              \* outcome of the most recent call on the Board
    evals,            \* the two (slot_scores, indicator) tuples of that call
    ranked,           \* the slot_weights dict that call ranked, with the
                      \* key max() returned for it
    player,           \* main(): local "player"
    next_slot         \* main(): local "next_slot"

vars == <<pc, board_size, win_size, slots, win_sets, slot_to_winsets,
          placements, ret, evals, ranked, player, next_slot>>

board == <<board_size, win_size, slots, win_sets, slot_to_winsets, placements>>

-----------------------------------------------------------------------------
(* Bounds of the model.                                                    *)

\* Largest size given to the constructor when only the structures are built.
MaxGeomSize == 8

\* Largest board on which every placement is evaluated.
MaxBoardSize == 3

\* Largest board on which every sequence of calls is followed.
MaxApiSize == 2

\* Largest board main() plays on.
MaxMainSize == 4

-----------------------------------------------------------------------------
(* Python built-ins.                                                       *)

None == <<>>

Range(s) == {s[i] : i \in DOMAIN s}

Min(a, b) == IF a < b THEN a ELSE b

\* chr(c) for the lower-case letters.
chr(c) ==
    <<"a", "b", "c", "d", "e", "f", "g", "h", "i", "j", "k", "l", "m",
      "n", "o", "p", "q", "r", "s", "t", "u", "v", "w", "x", "y", "z">>[c - 96]

\* s[i:j] for 0 <= i and 0 <= j.
Slice(s, i, j) == SubSeq(s, i + 1, Min(j, Len(s)))

\* s[::-1]
Reversed(s) == [i \in 1..Len(s) |-> s[Len(s) + 1 - i]]

\* sum(ls, []): the concatenation of the lists of ls (from the i-th on).
RECURSIVE ConcatFrom(_, _)
ConcatFrom(ls, i) ==
    IF i > Len(ls) THEN <<>> ELSE ls[i] \o ConcatFrom(ls, i + 1)

Concat(ls) == ConcatFrom(ls, 1)

\* [f(a, b) for a in s1 for b in s2], f given as the list of lists
\* rowsOf[a][b].
Flatten2(rowsOf, n1, n2) ==
    [x \in 1..(n1 * n2) |-> rowsOf[((x - 1) \div n2) + 1][((x - 1) % n2) + 1]]

-----------------------------------------------------------------------------
(* Module-level definitions.                                               *)

\* The markers X and O
pegs == <<"O", "X">>

EmptyPeg == " "

\* pegs.replace(peg, ''): for a peg of pegs the result is the one-character
\* string of the other marker.
opposite(peg) == SelectSeq(pegs, LAMBDA c : c # peg)[1]

cross(s1, s2) ==
    Flatten2([i \in 1..Len(s1) |-> [j \in 1..Len(s2) |-> <<s1[i], s2[j]>>]],
             Len(s1), Len(s2))

diag(s1, s2) == [i \in 1..Len(s1) |-> <<s1[i], s2[i]>>]

-----------------------------------------------------------------------------
(* Board._initialize_structures                                            *)

Rows(n) == [x \in 1..n |-> chr(97 + (x - 1))]

Slots(n) == cross(Rows(n), Rows(n))

\* Mutant: one window too few per row.
vert_setsShort(n, m) ==
    LET k == n - m
    IN  Flatten2([r \in 1..n |-> [i \in 1..k |->
                    cross(<<Rows(n)[r]>>, Slice(Rows(n), i - 1, i - 1 + m))]],
                 n, k)

vert_sets(n, m) ==
    LET k == n - m + 1
    IN  Flatten2([r \in 1..n |-> [i \in 1..k |->
                    cross(<<Rows(n)[r]>>, Slice(Rows(n), i - 1, i - 1 + m))]],
                 n, k)

horz_sets(n, m) ==
    LET k == n - m + 1
    IN  Flatten2([c \in 1..n |-> [i \in 1..k |->
                    cross(Slice(Rows(n), i - 1, i - 1 + m), <<Rows(n)[c]>>)]],
                 n, k)

dia1_sets(n, m) ==
    LET k == n - m + 1
    IN  Flatten2([i \in 1..k |-> [j \in 1..k |->
                    diag(Slice(Rows(n), i - 1, i - 1 + m),
                         Slice(Rows(n), j - 1, j - 1 + m))]],
                 k, k)

dia2_sets(n, m) ==
    LET k == n - m + 1
    IN  Flatten2([i \in 1..k |-> [j \in 1..k |->
                    diag(Slice(Rows(n), i - 1, i - 1 + m),
                         Reversed(Slice(Rows(n), j - 1, j - 1 + m)))]],
                 k, k)

WinSets(n, m) ==
    vert_sets(n, m) \o horz_sets(n, m) \o dia1_sets(n, m) \o dia2_sets(n, m)

\* The assertion on the number of win_sets.
WinSetsCountOk(n, m, ws) == 2 * (2 * n - m + 1) * (n - m + 1) = Len(ws)

\* Mutant: a slot is mapped to the win_sets that start with it.
SlotToWinsetsFirst(ss, ws) ==
    [s \in Range(ss) |-> SelectSeq(ws, LAMBDA w : s = w[1])]

\* Map from every slot of the board to the win_sets that contain it.
SlotToWinsets(ss, ws) ==
    [s \in Range(ss) |-> SelectSeq(ws, LAMBDA w : s \in Range(w))]

-----------------------------------------------------------------------------
(* Board._parse_board                                                      *)

\* The characters of board_str that are kept, '.' read as ' '.
ParseChars(board_str) ==
    SelectSeq([i \in 1..Len(board_str) |->
                  IF board_str[i] = "." THEN EmptyPeg ELSE board_str[i]],
              LAMBDA c : c \in Range(pegs) \cup {EmptyPeg})

\* The assertion of _parse_board.
ParseOk(n, board_str) == n * n = Len(ParseChars(board_str))

\* dict(zip(self._slots, chars))
ParseBoard(ss, board_str) ==
    [s \in Range(ss) |->
        ParseChars(board_str)[CHOOSE i \in 1..Len(ss) : ss[i] = s]]

\* ' ' * (self._board_size ** 2)
BlankString(n) == [i \in 1..(n * n) |-> EmptyPeg]

-----------------------------------------------------------------------------
(* Results of calls.                                                       *)

\* What a call left: its name and arguments, the exception that ended it
\* ("" when it returned) and, for best_slot, the returned tuple.
Ret(op, exc) ==
    [op |-> op, exc |-> exc, slot |-> None, peg |-> "",
     my_peg |-> "", defensiveness |-> 0, best_slot |-> None, message |-> ""]

NoRanked == [weights |-> <<>>, first |-> None]

-----------------------------------------------------------------------------
(* Board._best_offensive_move                                              *)

\* Sets that hold a peg of the other player: sum of the index entries.
can_not_win_sets(p2_slots) ==
    Concat([i \in 1..Len(p2_slots) |-> slot_to_winsets[p2_slots[i]]])

\* Sets where p1 could still win.
can_win_sets(p2_slots) ==
    LET cnws == Range(can_not_win_sets(p2_slots))
    IN  SelectSeq(win_sets, LAMBDA s : s \notin cnws)

\* Mutant: the check for "can not win this game anymore" is left out.
InitialIndicatorZero(cws) == 0

\* win_indicator before the loop: -1 when p1 can not win this game anymore.
InitialIndicator(cws) == IF Len(cws) = 0 THEN -1 ELSE 0

\* slot_weights before the loop.
InitialWeights(empty_slots) == [s \in Range(empty_slots) |-> 0]

\* Mutant: a set with one vacant slot counts as won.
WonOffByOne(vacant_slots) == Cardinality(vacant_slots) = 1

\* Mutant: a set without vacant slot is not seen as won.
WonNever(vacant_slots) == Cardinality(vacant_slots) < 0

\* "no vacant slot for a set == p1 won already"
Won(vacant_slots) == Cardinality(vacant_slots) = 0

\* Mutant: the weight grows by one, not by a factor of 5, per peg.
ExtraWeightLinear(vacant_slots) == win_size - Cardinality(vacant_slots) + 1

\* pow(5, self._win_size - len(vacant_slots))
ExtraWeight(vacant_slots) == 5 ^ (win_size - Cardinality(vacant_slots))

\* The body of the loop "for cw in can_win_sets" on the accumulator
\* (slot_weights, win_indicator); exc is the exception that leaves the loop:
\* slot_weights[s] += extra_weight raises KeyError for a slot that is no key
\* of slot_weights.
ScoreStep(cw, p1_set, acc) ==
    LET vacant_slots == Range(cw) \ p1_set
        indicator == IF Won(vacant_slots) THEN 1 ELSE acc.win_indicator
    IN  IF vacant_slots \subseteq DOMAIN acc.slot_weights
        THEN [slot_weights |->
                 [s \in vacant_slots |->
                     acc.slot_weights[s] + ExtraWeight(vacant_slots)]
                 @@ acc.slot_weights,
              win_indicator |-> indicator,
              exc |-> ""]
        ELSE [slot_weights |-> acc.slot_weights,
              win_indicator |-> indicator,
              exc |-> "KeyError"]

\* The loop over the sets cws[lo], ..., cws[hi], in this order; the range
\* is cut in two to keep the evaluation shallow.  (CHOOSE r \in {e(a) : a
\* \in {v}} : TRUE is e(v), v being evaluated once.)
RECURSIVE ScoreLoop(_, _, _, _, _)
ScoreLoop(cws, lo, hi, p1_set, acc) ==
    IF lo > hi \/ acc.exc # ""
    THEN acc
    ELSE IF lo = hi
    THEN ScoreStep(cws[lo], p1_set, acc)
    ELSE CHOOSE r \in
            { ScoreLoop(cws, ((lo + hi) \div 2) + 1, hi, p1_set, a) :
                  a \in {ScoreLoop(cws, lo, (lo + hi) \div 2, p1_set, acc)} }
            : TRUE

best_offensive_move(p1_peg, p1_slots, p2_slots, empty_slots) ==
    CHOOSE r \in
        { ScoreLoop(cws, 1, Len(cws), p1_set,
              [slot_weights |-> InitialWeights(empty_slots),
               win_indicator |-> InitialIndicator(cws),
               exc |-> ""]) :
              cws \in {can_win_sets(p2_slots)},
              p1_set \in {Range(p1_slots)} } : TRUE

-----------------------------------------------------------------------------
(* Board.best_slot                                                         *)

SlotsHolding(peg) == SelectSeq(slots, LAMBDA s : placements[s] = peg)

\* Mutant: the opponent's win is looked at before the mover's.
OutcomeOpponentFirst(my_peg, i1, i2) ==
    IF i2 = 1 THEN opposite(my_peg) \o " has won !!"
    ELSE IF i1 = 1 THEN my_peg \o " has won !!"
    ELSE IF i1 = -1 /\ i2 = -1 THEN "The game is draw !!"
    ELSE ""

\* The message of the terminal outcome the two indicators show, "" if none.
Outcome(my_peg, i1, i2) ==
    IF i1 = 1 THEN my_peg \o " has won !!"
    ELSE IF i2 = 1 THEN opposite(my_peg) \o " has won !!"
    ELSE IF i1 = -1 /\ i2 = -1 THEN "The game is draw !!"
    ELSE ""

\* Mutant: defensiveness multiplies the mover's own weight.
CombinedSwapped(w1, w2, defensiveness, s) == defensiveness * w1[s] + w2[s]

\* w1[s] + defensiveness * w2[s]
Combined(w1, w2, defensiveness, s) == w1[s] + defensiveness * w2[s]

\* The keys of d whose value is the largest.
ArgMax(d) == {s \in DOMAIN d : \A t \in DOMAIN d : d[t] <= d[s]}

\* max(slot_weights, key=slot_weights.get) returns the first key, in the
\* dict's iteration order, whose value is the largest.  That order is fixed
\* by the dict's contents and the way it was filled, and is otherwise
\* arbitrary: a dict equal to the one the previous call ranked gives the
\* same key again, any other dict may give any of its maximal keys.
MaxKeys(slot_weights) ==
    IF ranked.weights = slot_weights
    THEN {ranked.first}
    ELSE ArgMax(slot_weights)

\* What best_slot does with the empty slots and the results e1, e2 of the
\* two passes, before max(): the message of a terminal outcome, or the
\* combined slot_weights.
Ranking(my_peg, defensiveness, empty_slots, e1, e2) ==
    LET done(exc, msg, es) ==
            [exc |-> exc, final |-> TRUE, message |-> msg,
             slot_weights |-> <<>>, evals |-> es]
    IN  IF Len(empty_slots) = 0
        THEN done("", "GAME DRAW !!", <<>>)
        ELSE IF e1.exc # ""
        THEN done(e1.exc, "", <<e1>>)
        ELSE IF e2.exc # ""
        THEN done(e2.exc, "", <<e1, e2>>)
        ELSE IF Outcome(my_peg, e1.win_indicator, e2.win_indicator) # ""
        THEN done("", Outcome(my_peg, e1.win_indicator, e2.win_indicator),
                  <<e1, e2>>)
        ELSE [exc |-> "", final |-> FALSE, message |-> "",
              slot_weights |->
                  [s \in DOMAIN e1.slot_weights |->
                      Combined(e1.slot_weights, e2.slot_weights,
                               defensiveness, s)],
              evals |-> <<e1, e2>>]

\* best_slot up to max().  With no empty slot the passes are not run: their
\* results are then not looked at.
best_slot(my_peg, defensiveness) ==
    CHOOSE r \in
        { Ranking(my_peg, defensiveness, empty_slots, e1, e2) :
              empty_slots \in {SlotsHolding(EmptyPeg)},
              e1 \in {best_offensive_move(my_peg,
                          SlotsHolding(my_peg),
                          SlotsHolding(opposite(my_peg)),
                          SlotsHolding(EmptyPeg))},
              e2 \in {best_offensive_move(opposite(my_peg),
                          SlotsHolding(opposite(my_peg)),
                          SlotsHolding(my_peg),
                          SlotsHolding(EmptyPeg))} } : TRUE

\* Mutant: best_slot places the peg on the slot it returns.
BestSlotCallPlacing(my_peg, defensiveness) ==
    \E r \in {best_slot(my_peg, defensiveness)} :
        /\ evals' = r.evals
        /\ IF r.final
           THEN /\ ret' = [Ret("best_slot", r.exc) EXCEPT
                              !.my_peg = my_peg,
                              !.defensiveness = defensiveness,
                              !.message = r.message]
                /\ ranked' = NoRanked
                /\ placements' = placements
           ELSE \E k \in MaxKeys(r.slot_weights) :
                /\ ret' = [Ret("best_slot", "") EXCEPT
                              !.my_peg = my_peg,
                              !.defensiveness = defensiveness,
                              !.best_slot = k]
                /\ ranked' = [weights |-> r.slot_weights, first |-> k]
                /\ placements' = [placements EXCEPT ![k] = my_peg]
        /\ UNCHANGED <<board_size, win_size, slots, win_sets,
                       slot_to_winsets>>

\* The call b.best_slot(my_peg, defensiveness).
BestSlotCall(my_peg, defensiveness) ==
    \E r \in {best_slot(my_peg, defensiveness)} :
        /\ evals' = r.evals
        /\ IF r.final
           THEN /\ ret' = [Ret("best_slot", r.exc) EXCEPT
                              !.my_peg = my_peg,
                              !.defensiveness = defensiveness,
                              !.message = r.message]
                /\ ranked' = NoRanked
           ELSE \E k \in MaxKeys(r.slot_weights) :
                /\ ret' = [Ret("best_slot", "") EXCEPT
                              !.my_peg = my_peg,
                              !.defensiveness = defensiveness,
                              !.best_slot = k]
                /\ ranked' = [weights |-> r.slot_weights, first |-> k]
        /\ UNCHANGED board

-----------------------------------------------------------------------------
(* Board.__init__(board_size, win_size), board_string = None.              *)
(* In state "new" the constructor has been entered with its arguments      *)
(* bound; Construct runs it to its end.                                    *)

Construct ==
    /\ pc = "new"
    /\ IF /\ win_size <= board_size
          /\ WinSetsCountOk(board_size, win_size, WinSets(board_size, win_size))
          /\ ParseOk(board_size, BlankString(board_size))
       THEN /\ slots' = Slots(board_size)
            /\ win_sets' = WinSets(board_size, win_size)
            /\ slot_to_winsets' = SlotToWinsets(slots', win_sets')
            /\ placements' = ParseBoard(slots', BlankString(board_size))
            /\ ret' = Ret("__init__", "")
            /\ pc' = "ready"
       ELSE /\ ret' = Ret("__init__", "AssertionError")
            /\ pc' = "failed"
            /\ UNCHANGED <<slots, win_sets, slot_to_winsets, placements>>
    /\ UNCHANGED <<board_size, win_size, evals, ranked, player, next_slot>>

-----------------------------------------------------------------------------
(* Board.add_placement and Board.set_board                                 *)

\* self._placements.get(slot)
Get(slot) == IF slot \in DOMAIN placements THEN placements[slot] ELSE "None"

\* Mutant: the assertion is left out.
PlacementOkAlways(slot) == TRUE

\* The assertion of add_placement.
PlacementOk(slot) == Get(slot) = EmptyPeg

\* self._placements[slot] = peg
Placed(slot, peg) ==
    [s \in DOMAIN placements \cup {slot} |->
        IF s = slot THEN peg ELSE placements[s]]

\* The call b.add_placement(slot, peg).
AddPlacementCall(slot, peg) ==
    /\ IF PlacementOk(slot)
       THEN /\ placements' = Placed(slot, peg)
            /\ ret' = [Ret("add_placement", "") EXCEPT
                          !.slot = slot, !.peg = peg]
       ELSE /\ placements' = placements
            /\ ret' = [Ret("add_placement", "AssertionError") EXCEPT
                          !.slot = slot, !.peg = peg]
    /\ evals' = <<>>
    /\ ranked' = NoRanked
    /\ UNCHANGED <<board_size, win_size, slots, win_sets, slot_to_winsets>>

\* The call b.set_board(board_string).
SetBoardCall(board_string) ==
    /\ IF ParseOk(board_size, board_string)
       THEN /\ placements' = ParseBoard(slots, board_string)
            /\ ret' = Ret("set_board", "")
       ELSE /\ placements' = placements
            /\ ret' = Ret("set_board", "AssertionError")
    /\ evals' = <<>>
    /\ ranked' = NoRanked
    /\ UNCHANGED <<board_size, win_size, slots, win_sets, slot_to_winsets>>

-----------------------------------------------------------------------------
(* Inputs.                                                                 *)

\* The slots a caller names: those of the board and one that is not.
SlotArgs == Range(slots) \cup {<<"z", "z">>}

\* The values of defensiveness: none, even, the default.
Defensiveness == {0, 1, 5}

\* The rows of a board string, joined by '|'.
RECURSIVE Joined(_)
Joined(rs) ==
    IF Len(rs) = 0 THEN <<>>
    ELSE IF Len(rs) = 1 THEN rs[1]
    ELSE rs[1] \o <<"|">> \o Joined(Tail(rs))

\* A board string of n rows whose cell (i, j) shows f[i][j].
BoardString(n, f) == Joined([i \in 1..n |-> [j \in 1..n |-> f[i][j]]])

\* The board strings given to set_board: the empty board written with
\* dots, the board of the usage example, a near-complete row, a full board,
\* a board with lower-case markers and a string that is too short.
BoardStrings(n) ==
    { BoardString(n, [i \in 1..n |-> [j \in 1..n |-> "."]]),
      BoardString(n, [i \in 1..n |-> [j \in 1..n |->
          IF i = 1 /\ j = n THEN "X"
          ELSE IF i = 2 /\ j = 2 THEN "O" ELSE "."]]),
      BoardString(n, [i \in 1..n |-> [j \in 1..n |->
          IF i = 1 /\ j < n THEN "X" ELSE "."]]),
      BoardString(n, [i \in 1..n |-> [j \in 1..n |->
          IF (i + j) % 2 = 0 THEN "X" ELSE "O"]]),
      BoardString(n, [i \in 1..n |-> [j \in 1..n |->
          IF i = j THEN "x" ELSE " "]]),
      <<"X">> \o BlankString(n) }

-----------------------------------------------------------------------------
(* A Board in use: any sequence of add_placement, set_board and best_slot  *)
(* calls on a board constructed empty.                                     *)

\* The state Board(n, m, board_string) leaves, for a board string from
\* board_strings.
Constructed(n, m, board_strings) ==
    /\ board_size = n
    /\ win_size = m
    /\ slots = Slots(n)
    /\ win_sets = WinSets(n, m)
    /\ slot_to_winsets = SlotToWinsets(slots, win_sets)
    /\ \E board_string \in board_strings :
          placements = ParseBoard(slots, board_string)
    /\ ret = Ret("__init__", "")
    /\ evals = <<>>
    /\ ranked = NoRanked
    /\ player = "O"
    /\ next_slot = None

Init ==
    /\ pc = "ready"
    /\ \E n \in 1..MaxApiSize : \E m \in 1..n :
          Constructed(n, m, {BlankString(n)})

AddPlacement ==
    /\ pc = "ready"
    /\ \E slot \in SlotArgs : \E peg \in Range(pegs) :
          AddPlacementCall(slot, peg)
    /\ UNCHANGED <<pc, player, next_slot>>

SetBoard ==
    /\ pc = "ready"
    /\ \E board_string \in BoardStrings(board_size) :
          SetBoardCall(board_string)
    /\ UNCHANGED <<pc, player, next_slot>>

BestSlot ==
    /\ pc = "ready"
    /\ \E my_peg \in Range(pegs) : \E defensiveness \in Defensiveness :
          BestSlotCall(my_peg, defensiveness)
    /\ UNCHANGED <<pc, player, next_slot>>

Next == AddPlacement \/ SetBoard \/ BestSlot

Spec == Init /\ [][Next]_vars

-----------------------------------------------------------------------------
(* best_slot as a function of the board: it is applied once to a board     *)
(* constructed from any board string.                                      *)

\* The sizes are drawn from the largest down.
InitEval ==
    /\ pc = "ready"
    /\ \E i \in 0..(MaxBoardSize - 1) : \E j \in 0..(MaxBoardSize - 1 - i) :
          Constructed(MaxBoardSize - i, MaxBoardSize - i - j,
              [1..((MaxBoardSize - i) * (MaxBoardSize - i))
                  -> Range(pegs) \cup {EmptyPeg}])

Evaluate ==
    /\ ret.op = "__init__"
    /\ BestSlot

NextEval == Evaluate

SpecEval == InitEval /\ [][NextEval]_vars

-----------------------------------------------------------------------------
(* main(): the computer plays both players on an empty board.              *)

\* defensiveness = 5.0, the default of best_slot.
DefaultDefensiveness == 5

InitMain ==
    /\ pc = "best_slot"
    /\ \E n \in 1..MaxMainSize : \E m \in 1..n :
          Constructed(n, m, {BlankString(n)})

\* (next_slot, status) = b.best_slot(player)
MainBestSlot ==
    /\ pc = "best_slot"
    /\ BestSlotCall(player, DefaultDefensiveness)
    /\ next_slot' = ret'.best_slot
    /\ pc' = IF ret'.exc # "" THEN "raised"
             ELSE IF ret'.best_slot # None THEN "add_placement"
             ELSE "done"
    /\ UNCHANGED player

\* b.add_placement(next_slot, player); player = opposite(player)
MainAddPlacement ==
    /\ pc = "add_placement"
    /\ AddPlacementCall(next_slot, player)
    /\ IF ret'.exc # ""
       THEN pc' = "raised" /\ player' = player
       ELSE pc' = "raw_input" /\ player' = opposite(player)
    /\ UNCHANGED next_slot

\* raw_input('Press Enter.............') returns when Enter is pressed.
MainRawInput ==
    /\ pc = "raw_input"
    /\ pc' = "best_slot"
    /\ UNCHANGED <<board, ret, evals, ranked, player, next_slot>>

NextMain == MainBestSlot \/ MainAddPlacement \/ MainRawInput

\* The loop has no other work and the user presses Enter when asked to.
SpecMain == InitMain /\ [][NextMain]_vars /\ WF_vars(NextMain)

-----------------------------------------------------------------------------
(* The constructor alone.                                                  *)

InitGeom ==
    /\ pc = "new"
    /\ board_size \in 1..MaxGeomSize
    /\ win_size \in 1..MaxGeomSize
    /\ slots = <<>>
    /\ win_sets = <<>>
    /\ slot_to_winsets = <<>>
    /\ placements = <<>>
    /\ ret = Ret("", "")
    /\ evals = <<>>
    /\ ranked = NoRanked
    /\ player = "O"
    /\ next_slot = None

NextGeom == Construct

SpecGeom == InitGeom /\ [][NextGeom]_vars

-----------------------------------------------------------------------------
(* Vocabulary of the properties.  It is stated on the board alone: the     *)
(* lines are the generated win_sets, counted as often as they are          *)
(* generated.                                                              *)

Cells == Range(slots)

Lines == DOMAIN win_sets

LineCells(i) == Range(win_sets[i])

EmptyCells == {s \in Cells : placements[s] = EmptyPeg}

Other(peg) == IF peg = "X" THEN "O" ELSE "X"

\* peg occupies every cell of some line.
HasLine(peg) == \E i \in Lines : \A s \in LineCells(i) : placements[s] = peg

NoEmptyCell == EmptyCells = {}

\* Every line holds a cell of each marker.
EveryLineMixed ==
    \A i \in Lines :
        /\ \E s \in LineCells(i) : placements[s] = "O"
        /\ \E s \in LineCells(i) : placements[s] = "X"

\* The Empty cells that complete a line whose other cells all hold peg.
Completing(peg) ==
    {e \in EmptyCells :
        \E i \in Lines :
            /\ e \in LineCells(i)
            /\ \A s \in LineCells(i) \ {e} : placements[s] = peg}

\* The last call was best_slot, by Mover against Opponent.
Called == ret.op = "best_slot"

Mover == ret.my_peg

Opponent == Other(ret.my_peg)

Returned == <<ret.best_slot, ret.message>>

\* A board of three rows and columns won by three in a line.
ThreeByThree == board_size = 3 /\ win_size = 3

\* Row 0 holds peg except for its last cell; the rest of the board is empty.
RowButLast(peg) ==
    placements = [s \in Cells |->
                     IF s \in {<<"a", "a">>, <<"a", "b">>} THEN peg
                     ELSE EmptyPeg]

-----------------------------------------------------------------------------
\* C1: best_slot(mover) returns the first matching case of: no Empty cell
\* -> (None, 'GAME DRAW !!'); the mover occupies a whole line -> (None,
\* '<mover> has won !!'); the opponent occupies a whole line -> (None,
\* '<opponent> has won !!'); every line holds a cell of each marker ->
\* (None, 'The game is draw !!'); otherwise a cell and ''.
C1_Priority ==
    Called =>
        /\ ret.exc = ""
        /\ IF NoEmptyCell
           THEN Returned = <<None, "GAME DRAW !!">>
           ELSE IF HasLine(Mover)
           THEN Returned = <<None, Mover \o " has won !!">>
           ELSE IF HasLine(Opponent)
           THEN Returned = <<None, Opponent \o " has won !!">>
           ELSE IF EveryLineMixed
           THEN Returned = <<None, "The game is draw !!">>
           ELSE ret.best_slot \in Cells /\ ret.message = ""

\* Both players hold a whole line, a cell is Empty, the mover is reported.
C1_Witness ==
    /\ Called
    /\ ~NoEmptyCell
    /\ HasLine(Mover)
    /\ HasLine(Opponent)
    /\ Returned = <<None, Mover \o " has won !!">>

-----------------------------------------------------------------------------
\* C2 as stated: on a 3x3 board with win_size 3 where the mover holds two
\* cells of a line whose third cell is Empty, the evaluator run for the mover
\* yields WON (1) and best_slot returns (None, '<mover> has won !!').
C2_Original ==
    (Called /\ ThreeByThree /\ Completing(Mover) # {}) =>
        /\ Len(evals) = 2
        /\ evals[1].win_indicator = 1
        /\ Returned = <<None, Mover \o " has won !!">>

\* C2 amended: on such a board the evaluator yields WON (1) exactly when the
\* mover also occupies every cell of some line, and only then does best_slot
\* report that the mover has won; otherwise the indicator is CONTINUE (0),
\* and on the board whose row 0 holds the mover except for its last cell,
\* the rest being empty, best_slot returns that last cell with ''.
C2_Amended ==
    (Called /\ ThreeByThree /\ Completing(Mover) # {}) =>
        /\ Len(evals) = 2
        /\ evals[1].win_indicator = (IF HasLine(Mover) THEN 1 ELSE 0)
        /\ (Returned = <<None, Mover \o " has won !!">>) <=> HasLine(Mover)
        /\ RowButLast(Mover) => Returned = <<<<"a", "c">>, "">>

\* The example board has been evaluated for the player of row 0.
C2_Witness ==
    /\ Called
    /\ ThreeByThree
    /\ RowButLast(Mover)
    /\ evals[1].win_indicator = 0
    /\ ret.best_slot = <<"a", "c">>

-----------------------------------------------------------------------------
\* C3: on a 3x3 board with win_size 3 and defensiveness 5, when best_slot
\* returns a cell and the opponent has a line with two pegs and its third
\* cell Empty, the returned cell is the Empty cell of such a line; for
\* 'XX.|...|...' best_slot('O') returns 'ac'.
C3_Block ==
    (Called /\ ThreeByThree /\ ret.defensiveness = 5) =>
        /\ (ret.best_slot # None /\ Completing(Opponent) # {})
              => ret.best_slot \in Completing(Opponent)
        /\ (RowButLast("X") /\ Mover = "O")
              => Returned = <<<<"a", "c">>, "">>

\* 'XX.|...|...' has been evaluated for O with the default defensiveness.
C3_Witness ==
    /\ Called
    /\ ThreeByThree
    /\ ret.defensiveness = 5
    /\ RowButLast("X")
    /\ Mover = "O"
    /\ ret.best_slot \in Completing("X")

-----------------------------------------------------------------------------
\* C4 as stated: on every board on which every line holds a cell of each
\* marker, both evaluator passes yield BLOCKED (-1) and best_slot returns
\* (None, 'The game is draw !!').
C4_Original ==
    (Called /\ EveryLineMixed) =>
        /\ Len(evals) = 2
        /\ evals[1].win_indicator = -1
        /\ evals[2].win_indicator = -1
        /\ Returned = <<None, "The game is draw !!">>

\* C4 amended: the same on every such board that has an Empty cell (with no
\* Empty cell best_slot returns 'GAME DRAW !!' and runs no evaluator pass).
C4_Amended ==
    (Called /\ EveryLineMixed /\ ~NoEmptyCell) =>
        /\ Len(evals) = 2
        /\ evals[1].win_indicator = -1
        /\ evals[2].win_indicator = -1
        /\ Returned = <<None, "The game is draw !!">>

\* A board with an Empty cell and no line left to either player.
C4_Witness ==
    /\ Called
    /\ EveryLineMixed
    /\ ~NoEmptyCell
    /\ ret.message = "The game is draw !!"

-----------------------------------------------------------------------------
\* The weight of cell x for player P: the sum, over the lines that contain x
\* and no cell of P's opponent, of 5^(win_size - v), v the number of cells
\* of the line that P does not occupy.
RECURSIVE WeightFrom(_, _, _)
WeightFrom(P, x, i) ==
    IF i > Len(win_sets) THEN 0
    ELSE (IF /\ x \in LineCells(i)
             /\ \A s \in LineCells(i) : placements[s] # Other(P)
          THEN 5 ^ (win_size
                      - Cardinality({s \in LineCells(i) : placements[s] # P}))
          ELSE 0)
         + WeightFrom(P, x, i + 1)

Weight(P, x) == WeightFrom(P, x, 1)

CombinedScore(x) ==
    Weight(Mover, x) + ret.defensiveness * Weight(Opponent, x)

\* C9: a cell returned by best_slot(mover, d) is Empty and its combined
\* score w_mover + d * w_opp is the largest among the Empty cells; both
\* passes give weight to Empty cells only (no KeyError) and their weight
\* maps are defined on exactly the Empty cells.
C9_ArgMax ==
    Called =>
        /\ ret.exc = ""
        /\ \A k \in DOMAIN evals : DOMAIN evals[k].slot_weights = EmptyCells
        /\ ret.best_slot # None =>
              /\ ret.best_slot \in EmptyCells
              /\ \A x \in EmptyCells :
                    /\ evals[1].slot_weights[x] = Weight(Mover, x)
                    /\ evals[2].slot_weights[x] = Weight(Opponent, x)
                    /\ CombinedScore(x) <= CombinedScore(ret.best_slot)

\* A cell was returned on a board where both players have pegs and the
\* scores of the Empty cells differ.
C9_Witness ==
    /\ Called
    /\ ret.best_slot # None
    /\ \E s \in Cells : placements[s] = Mover
    /\ \E s \in Cells : placements[s] = Opponent
    /\ \E x \in EmptyCells : CombinedScore(x) < CombinedScore(ret.best_slot)

-----------------------------------------------------------------------------
\* C5: add_placement on a cell that is not Empty raises (the assertion
\* fails) and leaves every cell's occupant as it was.
C5_IllegalPlacement ==
    [][\A slot \in Cells : \A peg \in Range(pegs) :
          (/\ pc = "ready"
           /\ placements[slot] # EmptyPeg
           /\ AddPlacementCall(slot, peg))
          => (ret'.exc = "AssertionError" /\ placements' = placements)]_vars

\* add_placement has been called on an occupied cell of the board.
C5_Witness ==
    /\ ret.op = "add_placement"
    /\ ret.exc = "AssertionError"
    /\ ret.slot \in Cells
    /\ placements[ret.slot] # EmptyPeg

-----------------------------------------------------------------------------
-----------------------------------------------------------------------------
\* Row and column of a slot, counted from 0.
Ord(c) == CHOOSE x \in 0..25 : chr(97 + x) = c

RowOf(s) == Ord(s[1])

ColOf(s) == Ord(s[2])

\* Line i steps from each cell to the next in one of the four directions.
IsWindow(i) ==
    \E d \in {<<0, 1>>, <<1, 0>>, <<1, 1>>, <<1, -1>>} :
        \A j \in 1..(Len(win_sets[i]) - 1) :
            /\ RowOf(win_sets[i][j + 1]) - RowOf(win_sets[i][j]) = d[1]
            /\ ColOf(win_sets[i][j + 1]) - ColOf(win_sets[i][j]) = d[2]

\* C7: for m <= n the constructor's assertion holds and the generator
\* leaves exactly 2*(2n-m+1)*(n-m+1) lines, each a window of m distinct
\* cells of the n x n grid in one of the four directions (no window twice
\* when m > 1).
C7_LineCount ==
    (pc # "new" /\ win_size <= board_size) =>
        /\ pc = "ready"
        /\ ret.exc = ""
        /\ Cardinality(Cells) = board_size * board_size
        /\ Len(win_sets)
              = 2 * (2 * board_size - win_size + 1)
                  * (board_size - win_size + 1)
        /\ \A i \in Lines :
              /\ Len(win_sets[i]) = win_size
              /\ Cardinality(LineCells(i)) = win_size
              /\ LineCells(i) \subseteq Cells
              /\ IsWindow(i)
        /\ win_size > 1 => Cardinality(Range(win_sets)) = Len(win_sets)

\* The board of main()'s defaults has been constructed.
C7_Witness ==
    /\ pc = "ready"
    /\ board_size = 5
    /\ win_size = 4
    /\ Len(win_sets) = 28

-----------------------------------------------------------------------------
\* C8: the index maps each cell to exactly the generated lines that contain
\* it, no cell is left without a line, and each generated line is in the
\* entries of exactly win_size cells.
C8_Index ==
    pc = "ready" =>
        /\ DOMAIN slot_to_winsets = Cells
        /\ \A s \in Cells :
              /\ Len(slot_to_winsets[s]) > 0
              /\ Len(slot_to_winsets[s])
                    = Cardinality({i \in Lines : s \in LineCells(i)})
              /\ \A j \in DOMAIN slot_to_winsets[s] :
                    /\ s \in Range(slot_to_winsets[s][j])
                    /\ slot_to_winsets[s][j] \in Range(win_sets)
              /\ \A i \in Lines :
                    s \in LineCells(i)
                        => win_sets[i] \in Range(slot_to_winsets[s])
        /\ \A i \in Lines :
              Cardinality({s \in Cells :
                              win_sets[i] \in Range(slot_to_winsets[s])})
                  = win_size

\* An index has been built for a board with more cells than a line has.
C8_Witness ==
    /\ pc = "ready"
    /\ board_size = 4
    /\ win_size = 3
    /\ Len(slot_to_winsets[<<"b", "b">>]) = 7

-----------------------------------------------------------------------------
\* C10: in main()'s loop no call raises, every returned cell is Empty when
\* it is placed, no cell is returned on a board that holds a line fully
\* occupied by one peg, and the loop reaches a call that returns None.
C10_SelfPlay ==
    /\ [](pc # "raised")
    /\ [](pc = "add_placement" =>
             /\ next_slot \in EmptyCells
             /\ ~HasLine("O")
             /\ ~HasLine("X"))
    /\ <>(pc = "done" /\ Called /\ ret.best_slot = None)

\* A game on a board of more than one cell has ended with a full line.
C10_Witness ==
    /\ pc = "done"
    /\ ret.best_slot = None
    /\ board_size > 2
    /\ HasLine("O") \/ HasLine("X")

====
